---- MODULE Spec2Model ----
(***************************************************************************)
(* Model of run-aider.py: API key resolution (environment, keys file),     *)
(* the mode / vendor / model / edit-format menus, and the construction of  *)
(* the aider command line.                                                 *)
(*                                                                         *)
(* Strings are sequences of atoms: S("GOOGLE") \o S("_API_KEY") is the     *)
(* string GOOGLE_API_KEY.  A line of the keys file is such a sequence too, *)
(* with the atoms "=", the quotes, "#" and " " standing for themselves.    *)
(***************************************************************************)
EXTENDS Integers, Sequences, FiniteSets, TLC

VARIABLES
    VENDORS,            \* list of vendor names (aider_config.json)
    environ,            \* os.environ: variable name -> value, for the set variables
    fs,                 \* the files that exist: path -> sequence of lines
    VENDOR_KEY_SOURCE,  \* per vendor index: "env", "file" or "unset"
    pc,                 \* where the program waits
    SELECT_RESULT,      \* global result of the last select_* call
    mode,               \* selected_mode of main()
    main_vendor, main_model, editor_vendor, editor_model, selected_format,
    current_cmd_list,   \* command shown at the launch confirmation
    previous_cmd_list,  \* command the launch confirmation showed before, in this run
    choice,             \* last line read at a menu (stripped)
    asked,              \* the menu that read it
    out,                \* what the last step reported
    executed,           \* command handed to subprocess.run by the last step
    exit_status         \* status of sys.exit, once pc = "Exited"

vars == <<VENDORS, environ, fs, VENDOR_KEY_SOURCE, pc, SELECT_RESULT, mode,
          main_vendor, main_model, editor_vendor, editor_model, selected_format,
          current_cmd_list, previous_cmd_list, choice, asked, out, executed,
          exit_status>>

----------------------------------------------------------------------------
(* Strings *)

S(a) == <<a>>

None == S("<None>")
DEFAULT == S("default")
INVALID == S("invalid")

\* Bounds of the checked instances
MaxLines == 2       \* lines of a keys file, resolution instances
MaxWizLines == 1    \* lines of a keys file, full-session instances

----------------------------------------------------------------------------
(* Configuration (aider_config.json), already loaded and validated *)

GOOGLE == S("GOOGLE")
ANTHROPIC == S("ANTHROPIC")
MISTRAL == S("MISTRAL")

GEMINI_API_KEY == S("GEMINI") \o S("_API_KEY")
GOOGLE_API_KEY == S("GOOGLE") \o S("_API_KEY")
PRIMARY_KEYS_FILE == S("PRIMARY_KEYS_FILE")
OTHER_VAR == S("EDITOR")

ConfigVendors == <<GOOGLE, ANTHROPIC, MISTRAL>>

VENDOR_MODELS(vendor) ==
    CASE vendor = GOOGLE -> <<S("gemini-pro"), S("gemini-flash")>>
      [] vendor = ANTHROPIC -> <<S("claude-haiku")>>
      [] vendor = MISTRAL -> <<S("mistral-large")>>
      [] OTHER -> <<>>

CODE_EDIT_FORMATS == <<S("whole"), S("diff")>>
ARCHITECT_EDIT_FORMATS == <<S("editor-diff")>>

\* One entry per vendor: a plain name, or the list of two names for GOOGLE.
ApiKeyVarsOf(vendor) ==
    IF vendor = GOOGLE
    THEN [list |-> TRUE, names |-> <<GEMINI_API_KEY, GOOGLE_API_KEY>>]
    ELSE [list |-> FALSE, names |-> <<vendor \o S("_API_KEY")>>]

VENDOR_API_KEY_VARS == [i \in DOMAIN VENDORS |-> ApiKeyVarsOf(VENDORS[i])]

KnownVars == UNION {{VENDOR_API_KEY_VARS[i].names[k] : k \in DOMAIN VENDOR_API_KEY_VARS[i].names}
                    : i \in DOMAIN VENDORS}

----------------------------------------------------------------------------
(* os.environ *)

\* os.environ.get(var) is truthy: set, and not the empty string
EnvGet(env, var) == var \in DOMAIN env /\ env[var] # <<>>

\* os.environ[var] = value
EnvSet(env, var, value) ==
    [n \in DOMAIN env \cup {var} |-> IF n = var THEN value ELSE env[n]]

----------------------------------------------------------------------------
(* _load_keys_from_env *)

\* The isinstance(list) branch for vendor i: the first name with a value wins;
\* GOOGLE_API_KEY found without GEMINI_API_KEY is copied to GEMINI_API_KEY.
\* (variant: the legacy value is used without being copied)
LegacyCopySkipped(env) == env

\* os.environ["GEMINI_API_KEY"] = os.environ["GOOGLE_API_KEY"]
LegacyCopy(env) == EnvSet(env, GEMINI_API_KEY, env[GOOGLE_API_KEY])

\* (variant: the else branch is lost)
EnvSourceAlways(found) == "env"

\* the source recorded by the environment step
EnvSource(found) == IF found THEN "env" ELSE "unset"

RECURSIVE EnvListScan(_, _, _)
EnvListScan(names, k, env) ==
    IF k > Len(names) THEN [found |-> FALSE, env |-> env]
    ELSE IF EnvGet(env, names[k])
         THEN [found |-> TRUE,
               env |-> IF names[k] = GOOGLE_API_KEY /\ ~EnvGet(env, GEMINI_API_KEY)
                       THEN LegacyCopy(env)
                       ELSE env]
         ELSE EnvListScan(names, k + 1, env)

RECURSIVE LoadKeysFromEnv(_, _, _, _)
LoadKeysFromEnv(i, keyvars, env, source) ==
    IF i > Len(keyvars) THEN [env |-> env, source |-> source]
    ELSE IF keyvars[i].list
         THEN LET r == EnvListScan(keyvars[i].names, 1, env)
              IN LoadKeysFromEnv(i + 1, keyvars, r.env,
                     [source EXCEPT ![i] = EnvSource(r.found)])
         ELSE LoadKeysFromEnv(i + 1, keyvars, env,
                     [source EXCEPT ![i] = EnvSource(EnvGet(env, keyvars[i].names[1]))])

----------------------------------------------------------------------------
(* _find_keys_file *)

HomeKeysFile == S("~/.llm_api_keys")
NoPath == <<>>

FindKeysFile(env, files) ==
    IF EnvGet(env, PRIMARY_KEYS_FILE) /\ env[PRIMARY_KEYS_FILE] \in DOMAIN files
    THEN env[PRIMARY_KEYS_FILE]
    ELSE IF HomeKeysFile \in DOMAIN files THEN HomeKeysFile
    ELSE NoPath

----------------------------------------------------------------------------
(* _load_keys_from_file *)

IsSpace(a) == a = " "
IsQuote(a) == a \in {"\"", "'"}
IsWord(a) == a \notin {" ", "\"", "'", "=", "#", ""}

RECURSIVE LStrip(_)
LStrip(line) ==
    IF line # <<>> /\ IsSpace(Head(line)) THEN LStrip(Tail(line)) ELSE line

RECURSIVE RStrip(_)
RStrip(line) ==
    IF line # <<>> /\ IsSpace(line[Len(line)])
    THEN RStrip(SubSeq(line, 1, Len(line) - 1)) ELSE line

\* line.strip()
Strip(line) == RStrip(LStrip(line))

\* length of the longest prefix of word atoms: (\w+)
RECURSIVE WordPrefix(_)
WordPrefix(line) ==
    IF line # <<>> /\ IsWord(Head(line)) THEN 1 + WordPrefix(Tail(line)) ELSE 0

\* ["']?(.*?)["']?$ : one leading quote and then one trailing quote are dropped
UnquoteValue(raw) ==
    LET a == IF raw # <<>> /\ IsQuote(Head(raw)) THEN Tail(raw) ELSE raw
    IN IF a # <<>> /\ IsQuote(a[Len(a)]) THEN SubSeq(a, 1, Len(a) - 1) ELSE a

\* re.match(r'^(\w+)=["\']?(.*?)["\']?$', line) on a stripped line
MatchLine(line) ==
    LET n == WordPrefix(line)
    IN IF n >= 1 /\ Len(line) > n /\ line[n + 1] = "="
       THEN [ok |-> TRUE, var_name |-> SubSeq(line, 1, n),
             var_value |-> UnquoteValue(SubSeq(line, n + 2, Len(line)))]
       ELSE [ok |-> FALSE, var_name |-> <<>>, var_value |-> <<>>]

\* Index of the first vendor one of whose variable names is var_name, or 0
RECURSIVE VendorOfVar(_, _, _)
VendorOfVar(i, keyvars, var_name) ==
    IF i > Len(keyvars) THEN 0
    ELSE IF \E k \in DOMAIN keyvars[i].names : keyvars[i].names[k] = var_name THEN i
    ELSE VendorOfVar(i + 1, keyvars, var_name)

\* (variant: the file marks the vendor whatever its source was)
FileSourceAlways(old) == "file"

\* The source recorded for a vendor when a file line defines its variable
FileSource(old) == IF old = "unset" THEN "file" ELSE old

\* The value os.environ[var_name] holds after a file line defines var_name
FileEnvWrite(env, var_name, var_value) == EnvSet(env, var_name, var_value)

\* (variant: any NAME=value line is exported)
LoadLineAnyName(raw, keyvars, env, source) ==
    LET line == Strip(raw)
        m == MatchLine(line)
        i == VendorOfVar(1, keyvars, m.var_name)
    IN IF line = <<>> \/ Head(line) = "#" \/ ~m.ok
       THEN [env |-> env, source |-> source]
       ELSE [env |-> FileEnvWrite(env, m.var_name, m.var_value),
             source |-> IF i = 0 THEN source
                        ELSE [source EXCEPT ![i] = FileSource(source[i])]]

\* One line of the file
LoadLine(raw, keyvars, env, source) ==
    LET line == Strip(raw)
        m == MatchLine(line)
        i == VendorOfVar(1, keyvars, m.var_name)
    IN IF line = <<>> \/ Head(line) = "#" \/ ~m.ok \/ i = 0
       THEN [env |-> env, source |-> source]
       ELSE [env |-> FileEnvWrite(env, m.var_name, m.var_value),
             source |-> [source EXCEPT ![i] = FileSource(source[i])]]

RECURSIVE LoadKeysFromFile(_, _, _, _, _)
LoadKeysFromFile(k, lines, keyvars, env, source) ==
    IF k > Len(lines) THEN [env |-> env, source |-> source]
    ELSE LET r == LoadLine(lines[k], keyvars, env, source)
         IN LoadKeysFromFile(k + 1, lines, keyvars, r.env, r.source)

----------------------------------------------------------------------------
(* check_api_key *)

\* _get_vendor_index / VENDORS.index: 1-based position, 0 when absent
RECURSIVE IndexFrom(_, _, _)
IndexFrom(i, list, x) ==
    IF i > Len(list) THEN 0
    ELSE IF list[i] = x THEN i ELSE IndexFrom(i + 1, list, x)

GetVendorIndex(vendor_name) == IndexFrom(1, VENDORS, vendor_name)

\* TRUE when check_api_key returns, FALSE when it calls sys.exit(1)
\* (variant: a key variable that is set counts, empty or not)
CheckApiKeySetOnly(vendor) ==
    LET i == GetVendorIndex(vendor)
    IN /\ i # 0
       /\ \E k \in DOMAIN VENDOR_API_KEY_VARS[i].names :
              VENDOR_API_KEY_VARS[i].names[k] \in DOMAIN environ
       /\ VENDOR_KEY_SOURCE[i] # "unset"

CheckApiKey(vendor) ==
    LET i == GetVendorIndex(vendor)
    IN /\ i # 0
       /\ \E k \in DOMAIN VENDOR_API_KEY_VARS[i].names :
              EnvGet(environ, VENDOR_API_KEY_VARS[i].names[k])
       /\ VENDOR_KEY_SOURCE[i] # "unset"

\* (variant: the outcome of the check is not looked at)
AfterCheckIgnored(ok, next) == next

\* (variant: a failed check leads back to the vendor menu)
AfterCheckRetry(ok, next) == IF ok THEN next ELSE "VendorSelect"

\* Where control is after check_api_key(vendor): the next menu, or the process is gone
AfterCheck(ok, next) == IF ok THEN next ELSE "Exited"

----------------------------------------------------------------------------
(* select_entity, select_edit_format *)

DigitAtoms == {"0", "1", "2", "3", "4", "5", "6", "7", "8", "9"}

DigitVal(a) ==
    CASE a = "0" -> 0 [] a = "1" -> 1 [] a = "2" -> 2 [] a = "3" -> 3 [] a = "4" -> 4
      [] a = "5" -> 5 [] a = "6" -> 6 [] a = "7" -> 7 [] a = "8" -> 8 [] a = "9" -> 9

\* characters str.isdigit() accepts and int() rejects; "^2" is SUPERSCRIPT TWO
SuperscriptAtoms == {"^2"}

\* str.isdigit()
IsDigit(c) == c # <<>> /\ \A k \in DOMAIN c : c[k] \in DigitAtoms \cup SuperscriptAtoms

\* int(choice) raises ValueError
IntRaises(c) == \E k \in DOMAIN c : c[k] \notin DigitAtoms

\* stands for the ValueError leaving select_entity / select_edit_format
VALUE_ERROR == S("<ValueError>")

\* int(choice)
RECURSIVE IntOf(_)
IntOf(c) ==
    IF c = <<>> THEN 0 ELSE 10 * IntOf(SubSeq(c, 1, Len(c) - 1)) + DigitVal(c[Len(c)])

\* (variant: every configured vendor is listed)
VendorListedAlways(source) == source \in {"env", "file", "unset"}

\* whether a vendor with this key source is listed in a vendor menu
VendorListed(source) == source # "unset"

RECURSIVE AvailableFrom(_)
AvailableFrom(i) ==
    IF i > Len(VENDORS) THEN <<>>
    ELSE (IF VendorListed(VENDOR_KEY_SOURCE[i]) THEN <<VENDORS[i]>> ELSE <<>>)
         \o AvailableFrom(i + 1)

available_vendors == AvailableFrom(1)

\* SELECT_RESULT after select_entity reads the line c over the list entities
SelectEntity(entities, editor_vendor_menu, c) ==
    IF Len(entities) = 0
    THEN IF c = <<>> \/ c = S("0") THEN None ELSE INVALID
    ELSE IF c = <<>> \/ c = S("0") THEN None
    ELSE IF editor_vendor_menu /\ c = S("9") THEN DEFAULT
    ELSE IF IsDigit(c)
         THEN IF IntRaises(c) THEN VALUE_ERROR
              ELSE IF 0 <= IntOf(c) - 1 /\ IntOf(c) - 1 < Len(entities)
              THEN entities[IntOf(c)] ELSE INVALID
    ELSE INVALID

CODE == S("code")
ARCHITECT == S("architect")

\* (variant: either mode is given the formats of both)
FormatsOfBoth(m) == CODE_EDIT_FORMATS \o ARCHITECT_EDIT_FORMATS

\* formats of select_edit_format(m)
FormatsOf(m) == IF m = CODE THEN CODE_EDIT_FORMATS ELSE ARCHITECT_EDIT_FORMATS

\* SELECT_RESULT after select_edit_format(m) reads the line c
SelectEditFormat(m, c) ==
    IF m # CODE /\ m # ARCHITECT THEN INVALID
    ELSE IF c = <<>> \/ c = S("0") THEN None
    ELSE IF IsDigit(c)
         THEN IF IntRaises(c) THEN VALUE_ERROR
              ELSE IF 0 <= IntOf(c) - 1 /\ IntOf(c) - 1 < Len(FormatsOf(m)) + 1
              THEN IF IntOf(c) - 1 = 0 THEN DEFAULT ELSE FormatsOf(m)[IntOf(c) - 1]
              ELSE INVALID
    ELSE INVALID

----------------------------------------------------------------------------
(* Command construction *)

\* _get_api_key_value: the value of the first set variable of the vendor, or None
RECURSIVE FirstSetValue(_, _)
FirstSetValue(names, k) ==
    IF k > Len(names) THEN None
    ELSE IF EnvGet(environ, names[k]) THEN environ[names[k]]
    ELSE FirstSetValue(names, k + 1)

GetApiKeyValue(vendor) ==
    LET i == GetVendorIndex(vendor)
    IN IF i = 0 THEN None ELSE FirstSetValue(VENDOR_API_KEY_VARS[i].names, 1)

Flag(flag_name) == S("--") \o flag_name

\* (variant: the GOOGLE key is passed bare, like the others)
MainKeyFlagBare(vendor, api_key_value) ==
    CASE vendor = S("GOOGLE") -> <<Flag(S("api-key")), api_key_value>>
      [] vendor = S("ANTHROPIC") -> <<Flag(S("anthropic-api-key")), api_key_value>>
      [] vendor = S("OPENAI") -> <<Flag(S("openai-api-key")), api_key_value>>
      [] vendor = S("DEEPSEEK") -> <<Flag(S("deepseek-api-key")), api_key_value>>
      [] OTHER -> <<>>

\* (variant: a vendor outside the chain gets a flag named after it)
MainKeyFlagAnyVendor(vendor, api_key_value) ==
    CASE vendor = S("GOOGLE") -> <<Flag(S("api-key")), S("google=") \o api_key_value>>
      [] vendor = S("ANTHROPIC") -> <<Flag(S("anthropic-api-key")), api_key_value>>
      [] vendor = S("OPENAI") -> <<Flag(S("openai-api-key")), api_key_value>>
      [] vendor = S("DEEPSEEK") -> <<Flag(S("deepseek-api-key")), api_key_value>>
      [] OTHER -> <<Flag(S("api-key")), vendor \o S("=") \o api_key_value>>

\* the if/elif chain of _build_main_model_args over the vendor name
MainKeyFlag(vendor, api_key_value) ==
    CASE vendor = S("GOOGLE") -> <<Flag(S("api-key")), S("google=") \o api_key_value>>
      [] vendor = S("ANTHROPIC") -> <<Flag(S("anthropic-api-key")), api_key_value>>
      [] vendor = S("OPENAI") -> <<Flag(S("openai-api-key")), api_key_value>>
      [] vendor = S("DEEPSEEK") -> <<Flag(S("deepseek-api-key")), api_key_value>>
      [] OTHER -> <<>>

\* (variant: the key is passed for any resolved source)
MainPassesKeyAlways(key_source) == key_source # "unset"

\* whether _build_main_model_args looks for a key to pass, given the key source
MainPassesKey(key_source) == key_source = "file"

\* (variant: the key flag comes before --model)
BuildMainModelArgsKeyFirst(vendor, model) ==
    LET i == GetVendorIndex(vendor)
        kv == VENDOR_API_KEY_VARS[i]
        api_key_var_name ==
            IF kv.list
            THEN IF EnvGet(environ, GEMINI_API_KEY) THEN GEMINI_API_KEY
                 ELSE IF EnvGet(environ, GOOGLE_API_KEY) THEN GOOGLE_API_KEY
                 ELSE None
            ELSE kv.names[1]
    IN (IF i # 0 /\ MainPassesKey(VENDOR_KEY_SOURCE[i])
           /\ api_key_var_name # None /\ EnvGet(environ, api_key_var_name)
        THEN MainKeyFlag(vendor, environ[api_key_var_name])
        ELSE <<>>) \o <<S("--model"), model>>

\* _build_main_model_args
BuildMainModelArgs(vendor, model) ==
    LET i == GetVendorIndex(vendor)
        kv == VENDOR_API_KEY_VARS[i]
        api_key_var_name ==
            IF kv.list
            THEN IF EnvGet(environ, GEMINI_API_KEY) THEN GEMINI_API_KEY
                 ELSE IF EnvGet(environ, GOOGLE_API_KEY) THEN GOOGLE_API_KEY
                 ELSE None
            ELSE kv.names[1]
    IN <<S("--model"), model>> \o
       (IF i # 0 /\ MainPassesKey(VENDOR_KEY_SOURCE[i])
           /\ api_key_var_name # None /\ EnvGet(environ, api_key_var_name)
        THEN MainKeyFlag(vendor, environ[api_key_var_name])
        ELSE <<>>)

\* (variant: the editor key goes under the name of the main key flag of ANTHROPIC)
EditorKeyFlagOneName(vendor, api_key_value) ==
    CASE vendor = S("GOOGLE") -> <<Flag(S("anthropic-api-key")), api_key_value>>
      [] vendor = S("ANTHROPIC") -> <<Flag(S("anthropic-api-key")), api_key_value>>
      [] vendor = S("OPENAI") -> <<Flag(S("anthropic-api-key")), api_key_value>>
      [] vendor = S("DEEPSEEK") -> <<Flag(S("anthropic-api-key")), api_key_value>>
      [] OTHER -> <<>>

\* the if/elif chain of _build_architect_args over the editor vendor name
EditorKeyFlag(vendor, api_key_value) ==
    CASE vendor = S("GOOGLE") -> <<Flag(S("api-key")), S("google=") \o api_key_value>>
      [] vendor = S("ANTHROPIC") -> <<Flag(S("anthropic-api-key")), api_key_value>>
      [] vendor = S("OPENAI") -> <<Flag(S("openai-api-key")), api_key_value>>
      [] vendor = S("DEEPSEEK") -> <<Flag(S("deepseek-api-key")), api_key_value>>
      [] OTHER -> <<>>

\* (variant: the comparison with the main vendor is lost)
EditorNeedsKeyAlways(e_vendor, m_vendor) == e_vendor # DEFAULT

\* whether _build_architect_args considers a key flag for the editor vendor
EditorNeedsKey(e_vendor, m_vendor) == e_vendor # DEFAULT /\ e_vendor # m_vendor

\* (variant: the "default" editor model is passed like a chosen one)
BuildArchitectArgsNamed(e_vendor, e_model, m_vendor) ==
    LET i == GetVendorIndex(e_vendor)
    IN <<S("--architect")>> \o
       (IF e_model # None
        THEN <<S("--editor-model"), e_model>> \o
             (IF EditorNeedsKey(e_vendor, m_vendor) /\ i # 0
                 /\ VENDOR_KEY_SOURCE[i] = "file" /\ GetApiKeyValue(e_vendor) # None
              THEN EditorKeyFlag(e_vendor, GetApiKeyValue(e_vendor))
              ELSE <<>>)
        ELSE <<>>)

\* _build_architect_args
BuildArchitectArgs(e_vendor, e_model, m_vendor) ==
    LET i == GetVendorIndex(e_vendor)
    IN <<S("--architect")>> \o
       (IF e_model # DEFAULT /\ e_model # None
        THEN <<S("--editor-model"), e_model>> \o
             (IF EditorNeedsKey(e_vendor, m_vendor) /\ i # 0
                 /\ VENDOR_KEY_SOURCE[i] = "file" /\ GetApiKeyValue(e_vendor) # None
              THEN EditorKeyFlag(e_vendor, GetApiKeyValue(e_vendor))
              ELSE <<>>)
        ELSE <<>>)

\* (variant: code mode asks for both modes)
BuildCodeArgsBoth == <<S("--chat-mode"), S("code"), S("--architect")>>

\* _build_code_args
BuildCodeArgs == <<S("--chat-mode"), S("code")>>

\* (variant: the architect arguments are added in either mode)
CmdListArchitect(m, m_vendor, m_model, e_vendor, e_model) ==
    <<S("aider")>> \o BuildMainModelArgs(m_vendor, m_model) \o
    BuildArchitectArgs(e_vendor, e_model, m_vendor) \o
    (IF m = ARCHITECT THEN <<>> ELSE BuildCodeArgs)

\* cmd_list of launch_aider
CmdList(m, m_vendor, m_model, e_vendor, e_model) ==
    <<S("aider")>> \o BuildMainModelArgs(m_vendor, m_model) \o
    (IF m = ARCHITECT THEN BuildArchitectArgs(e_vendor, e_model, m_vendor)
     ELSE BuildCodeArgs)

\* (variant: the format is passed even when it is "default")
CurrentCmdListAlways(m, m_vendor, m_model, e_vendor, e_model, format) ==
    CmdList(m, m_vendor, m_model, e_vendor, e_model) \o
    (IF format # None THEN <<S("--edit-format"), format>> ELSE <<>>)

\* current_cmd_list of launch_aider
CurrentCmdList(m, m_vendor, m_model, e_vendor, e_model, format) ==
    CmdList(m, m_vendor, m_model, e_vendor, e_model) \o
    (IF format # DEFAULT /\ format # None
     THEN <<S("--edit-format"), format>> ELSE <<>>)

----------------------------------------------------------------------------
(* Initial states: the configuration is loaded, nothing is resolved yet *)

Assign(name, raw) == name \o S("=") \o raw

KnownVarsOf(vendors) ==
    UNION {{ApiKeyVarsOf(vendors[i]).names[k] : k \in DOMAIN ApiKeyVarsOf(vendors[i]).names}
           : i \in DOMAIN vendors}

\* every variable has its own value in the environment and its own in a file
EnvValueOf(n) == S("e-") \o n
FileValueOf(n) == S("f-") \o n

\* lines a keys file is drawn from in the resolution instances
KeyLines(vendors) ==
    UNION {{Assign(n, <<>>), Assign(n, FileValueOf(n))}
           : n \in KnownVarsOf(vendors) \cup {OTHER_VAR}}
    \cup {Assign(ANTHROPIC \o S("_API_KEY"), <<"\"", "g", "\"">>),
          <<"#">> \o Assign(GEMINI_API_KEY, S("f")),
          <<"export", " ">> \o Assign(GOOGLE_API_KEY, S("f")),
          <<" ">> \o Assign(MISTRAL \o S("_API_KEY"), <<"'", "g", " ">>)}

\* lines a keys file is drawn from in the full-session instances
WizLines(vendors) ==
    {Assign(n, FileValueOf(n)) : n \in KnownVarsOf(vendors)}
    \cup {Assign(GOOGLE_API_KEY, <<>>), Assign(ANTHROPIC \o S("_API_KEY"), <<>>)}

FilesOver(kinds, n) == UNION {[1..k -> kinds] : k \in 0..n}

PrimaryPath == S("/keys/primary")
DecoyFile == <<Assign(MISTRAL \o S("_API_KEY"), S("d"))>>
NoFiles == [p \in {} |-> <<>>]

\* the process environment at start: any subset of the key variables is set
StartEnvs(vendors) ==
    {[n \in D |-> EnvValueOf(n)] : D \in SUBSET KnownVarsOf(vendors)}

InitWith(vendors, files, layouts) ==
    /\ VENDORS = vendors
    /\ \E env \in StartEnvs(vendors), F \in files, layout \in layouts :
          \/ /\ layout = "none" /\ F = <<>>
             /\ environ = env /\ fs = NoFiles
          \/ /\ layout = "home"
             /\ environ = env /\ fs = (HomeKeysFile :> F)
          \/ /\ layout = "primary"
             /\ environ = EnvSet(env, PRIMARY_KEYS_FILE, PrimaryPath)
             /\ fs = (PrimaryPath :> F) @@ (HomeKeysFile :> DecoyFile)
          \/ /\ layout = "dangling"
             /\ environ = EnvSet(env, PRIMARY_KEYS_FILE, PrimaryPath)
             /\ fs = (HomeKeysFile :> F)
    /\ VENDOR_KEY_SOURCE = [i \in DOMAIN vendors |-> "unset"]
    /\ pc = "LoadEnv"
    /\ SELECT_RESULT = None
    /\ mode = None
    /\ main_vendor = None /\ main_model = None
    /\ editor_vendor = None /\ editor_model = None /\ selected_format = None
    /\ current_cmd_list = <<>>
    /\ previous_cmd_list = <<>>
    /\ choice = <<>>
    /\ asked = "none"
    /\ out = "Configuration loaded"
    /\ executed = <<>>
    /\ exit_status = 0

Init == InitWith(ConfigVendors, FilesOver(WizLines(ConfigVendors), MaxWizLines),
                 {"none", "home"})

InitKeys == InitWith(ConfigVendors, FilesOver(KeyLines(ConfigVendors), MaxLines),
                     {"none", "home", "primary", "dangling"})

\* a configuration of nine vendors, the last six without models
NineVendors == ConfigVendors \o <<S("OPENAI"), S("DEEPSEEK"), S("GROQ"),
                                  S("COHERE"), S("XAI"), S("OPENROUTER")>>

\* nine vendors, no keys file; the keys of the last six are in the environment
InitNine ==
    /\ InitWith(NineVendors, {<<>>}, {"none"})
    /\ \A i \in 4..9 : NineVendors[i] \o S("_API_KEY") \in DOMAIN environ

----------------------------------------------------------------------------
(* load_api_keys *)

selection == <<mode, main_vendor, main_model, editor_vendor, editor_model, selected_format>>
session == <<SELECT_RESULT, selection, current_cmd_list, previous_cmd_list, choice, asked,
            executed, exit_status>>

\* step 1 of load_api_keys
LoadEnvStep ==
    /\ pc = "LoadEnv"
    /\ LET r == LoadKeysFromEnv(1, VENDOR_API_KEY_VARS, environ, VENDOR_KEY_SOURCE)
       IN /\ environ' = r.env
          /\ VENDOR_KEY_SOURCE' = r.source
    /\ pc' = "LoadFile"
    /\ out' = "Checking environment variables for API keys"
    /\ UNCHANGED <<VENDORS, fs, session>>

\* steps 2 and 3 of load_api_keys
LoadFileStep ==
    /\ pc = "LoadFile"
    /\ LET path == FindKeysFile(environ, fs)
           r == IF path = NoPath
                THEN [env |-> environ, source |-> VENDOR_KEY_SOURCE]
                ELSE LoadKeysFromFile(1, fs[path], VENDOR_API_KEY_VARS, environ,
                                      VENDOR_KEY_SOURCE)
       IN /\ environ' = r.env
          /\ VENDOR_KEY_SOURCE' = r.source
    /\ pc' = "ModeSelect"
    /\ out' = "API key loading process complete"
    /\ UNCHANGED <<VENDORS, fs, session>>

----------------------------------------------------------------------------
(* main, run_code_mode, run_architect_mode, launch_aider *)

\* the lines the operator may type at a prompt
InputLines == {<<>>, S(" "), S("0"), S("1"), S("2"), S("3"), S("9"), S("x"), S("^2")}

\* (variant: back leads to the menu before)
BackTargetPrevious(step) ==
    CASE step = "ModelSelect" -> "VendorSelect"
      [] step = "EditorVendorSelect" -> "ModelSelect"
      [] step = "EditorModelSelect" -> "EditorVendorSelect"
      [] step = "FormatSelect" -> "ModelSelect"
      [] OTHER -> "ModeSelect"

\* where `return` out of run_code_mode / run_architect_mode leads from a menu
BackTarget(step) == "ModeSelect"

\* (variant: only a successful launch leaves the format loop)
AfterLaunchSuccessOnly(launch_status) ==
    IF launch_status = 0 THEN "ModeSelect" ELSE "FormatSelect"

\* (variant: "back to format" leads to the model menu)
AfterLaunchToModel(launch_status) ==
    IF launch_status = 2 THEN "ModelSelect" ELSE "ModeSelect"

\* where the caller of launch_aider goes on its return status
AfterLaunch(launch_status) == IF launch_status = 2 THEN "FormatSelect" ELSE "ModeSelect"

Sel(m, mv, mm, ev, em, f) ==
    /\ mode' = m
    /\ main_vendor' = mv /\ main_model' = mm
    /\ editor_vendor' = ev /\ editor_model' = em
    /\ selected_format' = f

\* (variant: what was selected and shown outlives the run)
DiscardNothing == UNCHANGED <<selection, current_cmd_list, previous_cmd_list>>

\* run_*_mode returns: its locals are gone, main() clears selected_mode
Discard ==
    /\ Sel(None, None, None, None, None, None)
    /\ current_cmd_list' = <<>>
    /\ previous_cmd_list' = <<>>

resolved == <<VENDORS, environ, fs, VENDOR_KEY_SOURCE>>

\* (variant: the keys are taken out of the environment once resolution is over)
KeysReadAndCleared ==
    /\ environ' = [n \in DOMAIN environ |-> <<>>]
    /\ UNCHANGED <<VENDORS, fs, VENDOR_KEY_SOURCE>>

\* the menus, check_api_key, the builders and the launch read os.environ and
\* VENDOR_KEY_SOURCE and write neither
KeysRead == UNCHANGED resolved

commands == <<current_cmd_list, previous_cmd_list>>

\* an exception no handler catches: traceback, the interpreter ends with status 1
Uncaught(report) ==
    /\ pc' = "Exited" /\ exit_status' = 1
    /\ out' = report
    /\ UNCHANGED <<selection, commands>>

\* display_mode_selection_menu and the dispatch of main()
ModeSelectStep ==
    /\ pc = "ModeSelect"
    /\ asked' = pc
    /\ \E raw \in InputLines :
         LET c == Strip(raw)
             mode_choice == IF c = <<>> THEN S("0") ELSE c
         IN /\ choice' = c
            /\ CASE mode_choice = S("1") ->
                      /\ pc' = "VendorSelect"
                      /\ Sel(CODE, None, None, None, None, None)
                      /\ out' = "" /\ UNCHANGED exit_status
                 [] mode_choice = S("2") ->
                      /\ pc' = "VendorSelect"
                      /\ Sel(ARCHITECT, None, None, None, None, None)
                      /\ out' = "" /\ UNCHANGED exit_status
                 [] mode_choice = S("0") ->
                      /\ pc' = "Exited" /\ exit_status' = 0
                      /\ out' = "Goodbye!" /\ UNCHANGED selection
                 [] OTHER ->
                      /\ pc' = pc /\ out' = "Invalid choice"
                      /\ UNCHANGED <<selection, exit_status>>
    /\ executed' = <<>>
    /\ KeysRead
    /\ UNCHANGED <<SELECT_RESULT, commands>>

\* Step 1 of both flows: main vendor, then check_api_key
VendorSelectStep ==
    /\ pc = "VendorSelect"
    /\ asked' = pc
    /\ \E raw \in InputLines :
         LET c == Strip(raw)
             r == SelectEntity(available_vendors, FALSE, c)
         IN /\ choice' = c
            /\ SELECT_RESULT' = (IF r = VALUE_ERROR THEN None ELSE r)
            /\ IF r = VALUE_ERROR
               THEN Uncaught("Traceback: ValueError")
               ELSE IF r = INVALID
               THEN /\ pc' = pc /\ out' = "Invalid choice"
                    /\ UNCHANGED <<selection, commands, exit_status>>
               ELSE IF r = None
               THEN /\ pc' = BackTarget(pc) /\ Discard
                    /\ out' = "" /\ UNCHANGED exit_status
               ELSE /\ pc' = AfterCheck(CheckApiKey(r), "ModelSelect")
                    /\ main_vendor' = r
                    /\ exit_status' = IF CheckApiKey(r) THEN exit_status ELSE 1
                    /\ out' = IF CheckApiKey(r) THEN "" ELSE "Error: API key is not set"
                    /\ UNCHANGED <<mode, main_model, editor_vendor, editor_model,
                                   selected_format, commands>>
    /\ executed' = <<>>
    /\ KeysRead

\* Step 2 of both flows: main model
ModelSelectStep ==
    /\ pc = "ModelSelect"
    /\ asked' = pc
    /\ \E raw \in InputLines :
         LET c == Strip(raw)
             r == SelectEntity(VENDOR_MODELS(main_vendor), FALSE, c)
         IN /\ choice' = c
            /\ SELECT_RESULT' = (IF r = VALUE_ERROR THEN None ELSE r)
            /\ IF r = VALUE_ERROR
               THEN Uncaught("Traceback: ValueError")
               ELSE IF r = INVALID
               THEN /\ pc' = pc /\ out' = "Invalid choice"
                    /\ UNCHANGED <<selection, commands, exit_status>>
               ELSE IF r = None
               THEN /\ pc' = BackTarget(pc) /\ Discard /\ out' = ""
                    /\ UNCHANGED exit_status
               ELSE /\ pc' = IF mode = ARCHITECT THEN "EditorVendorSelect" ELSE "FormatSelect"
                    /\ main_model' = r /\ out' = ""
                    /\ UNCHANGED <<mode, main_vendor, editor_vendor, editor_model,
                                   selected_format, commands, exit_status>>
    /\ executed' = <<>>
    /\ KeysRead

\* Steps 3 and 4 (first half) of run_architect_mode: editor vendor, "9" = same as architect
EditorVendorSelectStep ==
    /\ pc = "EditorVendorSelect"
    /\ asked' = pc
    /\ \E raw \in InputLines :
         LET c == Strip(raw)
             r == SelectEntity(available_vendors, TRUE, c)
         IN /\ choice' = c
            /\ SELECT_RESULT' = (IF r = VALUE_ERROR THEN None ELSE r)
            /\ IF r = VALUE_ERROR
               THEN Uncaught("Traceback: ValueError")
               ELSE IF r = INVALID
               THEN /\ pc' = pc /\ out' = "Invalid choice"
                    /\ UNCHANGED <<selection, commands, exit_status>>
               ELSE IF r = None
               THEN /\ pc' = BackTarget(pc) /\ Discard
                    /\ out' = "" /\ UNCHANGED exit_status
               ELSE IF r = DEFAULT
               THEN /\ pc' = "FormatSelect"
                    /\ editor_vendor' = DEFAULT /\ editor_model' = DEFAULT
                    /\ out' = ""
                    /\ UNCHANGED <<mode, main_vendor, main_model, selected_format,
                                   commands, exit_status>>
               ELSE /\ pc' = AfterCheck(CheckApiKey(r), "EditorModelSelect")
                    /\ editor_vendor' = r
                    /\ exit_status' = IF CheckApiKey(r) THEN exit_status ELSE 1
                    /\ out' = IF CheckApiKey(r) THEN "" ELSE "Error: API key is not set"
                    /\ UNCHANGED <<mode, main_vendor, main_model, editor_model,
                                   selected_format, commands>>
    /\ executed' = <<>>
    /\ KeysRead

\* Step 4 of run_architect_mode: editor model
EditorModelSelectStep ==
    /\ pc = "EditorModelSelect"
    /\ asked' = pc
    /\ \E raw \in InputLines :
         LET c == Strip(raw)
             r == SelectEntity(VENDOR_MODELS(editor_vendor), FALSE, c)
         IN /\ choice' = c
            /\ SELECT_RESULT' = (IF r = VALUE_ERROR THEN None ELSE r)
            /\ IF r = VALUE_ERROR
               THEN Uncaught("Traceback: ValueError")
               ELSE IF r = INVALID
               THEN /\ pc' = pc /\ out' = "Invalid choice"
                    /\ UNCHANGED <<selection, commands, exit_status>>
               ELSE IF r = None
               THEN /\ pc' = BackTarget(pc) /\ Discard /\ out' = ""
                    /\ UNCHANGED exit_status
               ELSE /\ pc' = "FormatSelect"
                    /\ editor_model' = r /\ out' = ""
                    /\ UNCHANGED <<mode, main_vendor, main_model, editor_vendor,
                                   selected_format, commands, exit_status>>
    /\ executed' = <<>>
    /\ KeysRead

\* outcomes of subprocess.run(["command", "-v", "aider"]): return code 0, a
\* non-zero return code, or FileNotFoundError where `command` is no executable
PresenceOutcomes == {"0", "1", "FileNotFoundError"}

\* select_edit_format, then the head of launch_aider: the command is built and
\* the presence of aider is tested
FormatSelectStep ==
    /\ pc = "FormatSelect"
    /\ asked' = pc
    /\ \E raw \in InputLines, presence \in PresenceOutcomes :
         LET c == Strip(raw)
             r == SelectEditFormat(mode, c)
         IN /\ choice' = c
            /\ SELECT_RESULT' = (IF r = VALUE_ERROR THEN None ELSE r)
            /\ IF r = VALUE_ERROR
               THEN Uncaught("Traceback: ValueError")
               ELSE IF r = INVALID
               THEN /\ pc' = pc /\ out' = "Invalid choice"
                    /\ UNCHANGED <<selection, commands, exit_status>>
               ELSE IF r = None
               THEN /\ pc' = BackTarget(pc) /\ Discard /\ out' = ""
                    /\ UNCHANGED exit_status
               ELSE IF presence = "FileNotFoundError"
               THEN /\ pc' = "Exited" /\ exit_status' = 1
                    /\ selected_format' = r
                    /\ out' = "Traceback: FileNotFoundError: 'command'"
                    /\ UNCHANGED <<mode, main_vendor, main_model, editor_vendor,
                                   editor_model, commands>>
               ELSE IF presence = "1"
               THEN /\ pc' = AfterLaunch(1) /\ Discard
                    /\ out' = "Error: Aider command not found"
                    /\ UNCHANGED exit_status
               ELSE /\ pc' = "LaunchConfirm"
                    /\ selected_format' = r
                    /\ current_cmd_list' =
                          CurrentCmdList(mode, main_vendor, main_model,
                                         editor_vendor, editor_model, r)
                    /\ out' = "AIDER LAUNCH COMMAND"
                    /\ UNCHANGED <<mode, main_vendor, main_model, editor_vendor,
                                   editor_model, previous_cmd_list, exit_status>>
    /\ executed' = <<>>
    /\ KeysRead

\* outcomes of subprocess.run(current_cmd_list): exit status 0, a non-zero status,
\* or FileNotFoundError
RunOutcomes == {"0", "2", "FileNotFoundError"}

\* (variant: whatever the line, the command is confirmed)
ConfirmChoiceAlways(c) == S("1")

\* input(...).strip() or "1"
ConfirmChoice(c) == IF c = <<>> THEN S("1") ELSE c

\* the pre-launch confirmation loop of launch_aider
LaunchConfirmStep ==
    /\ pc = "LaunchConfirm"
    /\ asked' = pc
    /\ \E raw \in InputLines, outcome \in RunOutcomes :
         LET c == Strip(raw)
             confirm_choice == ConfirmChoice(c)
         IN /\ choice' = c
            /\ CASE confirm_choice = S("1") ->
                      /\ executed' = current_cmd_list
                      /\ pc' = AfterLaunch(IF outcome = "0" THEN 0 ELSE 1)
                      /\ Discard
                      /\ out' = CASE outcome = "0" -> "aider exited"
                                  [] outcome = "2" -> "Error: aider command failed"
                                  [] OTHER -> "Error: 'aider' command not found"
                 [] confirm_choice = S("2") ->
                      /\ executed' = <<>>
                      /\ pc' = AfterLaunch(2)
                      /\ out' = ""
                      /\ current_cmd_list' = <<>>
                      /\ previous_cmd_list' = current_cmd_list
                      /\ UNCHANGED selection
                 [] confirm_choice = S("0") ->
                      /\ executed' = <<>>
                      /\ pc' = AfterLaunch(1) /\ Discard
                      /\ out' = ""
                 [] OTHER ->
                      /\ executed' = <<>>
                      /\ pc' = pc /\ out' = "Invalid choice"
                      /\ UNCHANGED <<selection, commands>>
    /\ KeysRead
    /\ UNCHANGED <<SELECT_RESULT, exit_status>>

----------------------------------------------------------------------------

Next ==
    \/ LoadEnvStep
    \/ LoadFileStep
    \/ ModeSelectStep
    \/ VendorSelectStep
    \/ ModelSelectStep
    \/ EditorVendorSelectStep
    \/ EditorModelSelectStep
    \/ FormatSelectStep
    \/ LaunchConfirmStep

Spec == Init /\ [][Next]_vars

NextKeys == LoadEnvStep \/ LoadFileStep

SpecKeys == InitKeys /\ [][NextKeys]_vars

SpecNine == InitNine /\ [][Next]_vars

----------------------------------------------------------------------------
(* Properties *)

BackInputs == {<<>>, S("0")}

SelectSteps == {"VendorSelect", "ModelSelect", "EditorVendorSelect",
                "EditorModelSelect", "FormatSelect"}

\* the menu shown just before the current one in this run
PrecedingStep ==
    CASE pc = "VendorSelect" -> "ModeSelect"
      [] pc = "ModelSelect" -> "VendorSelect"
      [] pc = "EditorVendorSelect" -> "ModelSelect"
      [] pc = "EditorModelSelect" -> "EditorVendorSelect"
      [] pc = "FormatSelect" ->
           IF mode = CODE THEN "ModelSelect"
           ELSE IF editor_vendor = DEFAULT THEN "EditorVendorSelect"
           ELSE "EditorModelSelect"
      [] OTHER -> pc

SelectionDiscarded ==
    /\ mode = None /\ main_vendor = None /\ main_model = None
    /\ editor_vendor = None /\ editor_model = None /\ selected_format = None

\* C1 as stated: empty input or "0" at a selection step leads to the step
\* immediately before it (ModeSelect from the first step).
C1_BackOneLevel ==
    [][(pc \in SelectSteps /\ choice' \in BackInputs) => pc' = PrecedingStep]_vars

\* C1 amended: empty input or "0" at any selection step leads straight to
\* ModeSelect, with the selection of the run dropped.
C1_BackToModeSelect ==
    [][(pc \in SelectSteps /\ choice' \in BackInputs)
         => (pc' = "ModeSelect" /\ SelectionDiscarded')]_vars

\* a back input was read at EditorModelSelect, three menus into the run
C1_Witness ==
    /\ pc = "ModeSelect" /\ asked = "EditorModelSelect"
    /\ choice \in BackInputs /\ SELECT_RESULT = None

\* C2: after the configuration is loaded, the process ends only by the exit
\* choice (empty input or "0") at ModeSelect.
C2_ExitOnlyAtModeSelect ==
    [][(pc # "Exited" /\ pc' = "Exited")
         => (pc = "ModeSelect" /\ choice' \in BackInputs /\ exit_status' = 0)]_vars

\* no variable of the vendor has a value, or its source is "unset"
KeyUnavailable(vendor) ==
    \E i \in DOMAIN VENDORS :
       /\ VENDORS[i] = vendor
       /\ \/ VENDOR_KEY_SOURCE[i] = "unset"
          \/ \A k \in DOMAIN VENDOR_API_KEY_VARS[i].names :
                LET n == VENDOR_API_KEY_VARS[i].names[k]
                IN n \notin DOMAIN environ \/ environ[n] = <<>>

\* a vendor was picked at a vendor menu and its key is not available
PickedUnavailable ==
    /\ pc \in {"VendorSelect", "EditorVendorSelect"}
    /\ SELECT_RESULT' \notin {None, INVALID, DEFAULT}
    /\ KeyUnavailable(SELECT_RESULT')

----------------------------------------------------------------------------
(* Properties of key resolution *)

NamesOf(i) == {VENDOR_API_KEY_VARS[i].names[k] : k \in DOMAIN VENDOR_API_KEY_VARS[i].names}

\* the lines of the keys file load_api_keys reads (none when no file is found)
LocatedLines ==
    IF FindKeysFile(environ, fs) = NoPath THEN <<>> ELSE fs[FindKeysFile(environ, fs)]

\* line k of lines is an assignment NAME=value to the name n
DefinesAt(lines, k, n) ==
    LET l == Strip(lines[k])
    IN l # <<>> /\ Head(l) # "#" /\ MatchLine(l).ok /\ MatchLine(l).var_name = n

FileDefines(lines, n) == \E k \in DOMAIN lines : DefinesAt(lines, k, n)

\* C4: the file step leaves every "env" source as it is, and changes a source
\* only from "unset" to "file".
C4_EnvSourceKept ==
    [][pc = "LoadFile" =>
         \A i \in DOMAIN VENDORS :
            /\ VENDOR_KEY_SOURCE[i] = "env" => VENDOR_KEY_SOURCE'[i] = "env"
            /\ VENDOR_KEY_SOURCE'[i] # VENDOR_KEY_SOURCE[i]
                 => (VENDOR_KEY_SOURCE[i] = "unset" /\ VENDOR_KEY_SOURCE'[i] = "file")]_vars

\* resolution is over, a vendor has source "env" and the file defines its variable
C4_Witness ==
    /\ pc = "ModeSelect"
    /\ \E i \in DOMAIN VENDORS :
          /\ VENDOR_KEY_SOURCE[i] = "env"
          /\ \E n \in NamesOf(i) : FileDefines(LocatedLines, n)

\* C5: the file step leaves the value of every variable that is already set in
\* the environment unchanged.
C5_FileKeepsSetValues ==
    [][pc = "LoadFile" =>
         \A n \in DOMAIN environ : environ'[n] = environ[n]]_vars

\* C6: with GOOGLE_API_KEY set and GEMINI_API_KEY absent, the environment step
\* sets GEMINI_API_KEY to the value of GOOGLE_API_KEY and records "env" for GOOGLE.
C6_LegacyCopiedToPrimary ==
    [][(/\ pc = "LoadEnv"
        /\ GOOGLE_API_KEY \in DOMAIN environ /\ environ[GOOGLE_API_KEY] # <<>>
        /\ GEMINI_API_KEY \notin DOMAIN environ)
         => (/\ GEMINI_API_KEY \in DOMAIN environ'
             /\ environ'[GEMINI_API_KEY] = environ[GOOGLE_API_KEY]
             /\ environ'[GOOGLE_API_KEY] = environ[GOOGLE_API_KEY]
             /\ \A i \in DOMAIN VENDORS :
                   VENDORS[i] = GOOGLE => VENDOR_KEY_SOURCE'[i] = "env")]_vars

\* the environment step has copied the legacy value
C6_Witness ==
    /\ pc = "LoadFile"
    /\ GEMINI_API_KEY \in DOMAIN environ
    /\ environ[GEMINI_API_KEY] = EnvValueOf(GOOGLE_API_KEY)
    /\ \E i \in DOMAIN VENDORS : VENDORS[i] = GOOGLE /\ VENDOR_KEY_SOURCE[i] = "env"

\* C7: a vendor none of whose variables is in the environment or defined in the
\* located file keeps source "unset" through both steps, and check_api_key fails.
C7_AbsentStaysUnset ==
    [][/\ pc = "LoadEnv" =>
            \A i \in DOMAIN VENDORS :
               NamesOf(i) \cap DOMAIN environ = {}
                 => (/\ VENDOR_KEY_SOURCE'[i] = "unset"
                     /\ NamesOf(i) \cap DOMAIN environ' = {})
       /\ pc = "LoadFile" =>
            \A i \in DOMAIN VENDORS :
               (/\ VENDOR_KEY_SOURCE[i] = "unset"
                /\ NamesOf(i) \cap DOMAIN environ = {}
                /\ \A n \in NamesOf(i) : ~FileDefines(LocatedLines, n))
                 => (/\ VENDOR_KEY_SOURCE'[i] = "unset"
                     /\ ~CheckApiKey(VENDORS[i])')]_vars

\* resolution is over with a file read, one vendor resolved from it and another
\* found nowhere
C7_Witness ==
    /\ pc = "ModeSelect"
    /\ FindKeysFile(environ, fs) # NoPath
    /\ \E i, j \in DOMAIN VENDORS :
          /\ VENDOR_KEY_SOURCE[i] = "unset"
          /\ NamesOf(i) \cap DOMAIN environ = {}
          /\ \A n \in NamesOf(i) : ~FileDefines(LocatedLines, n)
          /\ ~CheckApiKey(VENDORS[i])
          /\ VENDOR_KEY_SOURCE[j] = "file"

----------------------------------------------------------------------------
(* Properties of the built command *)

KeyFlagNames == {Flag(S("api-key")), Flag(S("anthropic-api-key")),
                 Flag(S("openai-api-key")), Flag(S("deepseek-api-key"))}

\* the vendors aider has a key flag for
HasKeyFlag(vendor) == vendor \in {S("GOOGLE"), S("ANTHROPIC"), S("OPENAI"), S("DEEPSEEK")}

KeyFlagOf(vendor) ==
    CASE vendor = S("GOOGLE") -> Flag(S("api-key"))
      [] vendor = S("ANTHROPIC") -> Flag(S("anthropic-api-key"))
      [] vendor = S("OPENAI") -> Flag(S("openai-api-key"))
      [] vendor = S("DEEPSEEK") -> Flag(S("deepseek-api-key"))
      [] OTHER -> None

\* the value token: google=<key> for GOOGLE, the bare key otherwise
Encoded(vendor, x) == IF vendor = S("GOOGLE") THEN S("google=") \o x ELSE x

Count(cmd, token) == Cardinality({k \in DOMAIN cmd : cmd[k] = token})

Carries(cmd, flag, value) ==
    \E k \in DOMAIN cmd : k < Len(cmd) /\ cmd[k] = flag /\ cmd[k + 1] = value

ModeFlags == {S("--architect"), S("--chat-mode")}

\* position of the first mode flag
ModeFlagAt(cmd) ==
    CHOOSE k \in DOMAIN cmd :
       cmd[k] \in ModeFlags /\ \A j \in 1..(k - 1) : cmd[j] \notin ModeFlags

\* the tokens between `aider --model <model>` and the mode flags
MainKeyArgs(cmd) == SubSeq(cmd, 4, ModeFlagAt(cmd) - 1)

\* the tokens from the mode flag on
ModeArgs(cmd) == SubSeq(cmd, ModeFlagAt(cmd), Len(cmd))

\* the value the last definition of n in the file gives it
LastFileValue(lines, n) ==
    LET k == CHOOSE k \in DOMAIN lines :
                 DefinesAt(lines, k, n)
                 /\ \A j \in DOMAIN lines : DefinesAt(lines, j, n) => j <= k
    IN MatchLine(Strip(lines[k])).var_value

\* the non-empty values the file gives the names of vendor i, in the order of the names
FileValues(lines, i) ==
    LET names == VENDOR_API_KEY_VARS[i].names
        V(k) == IF FileDefines(lines, names[k]) /\ LastFileValue(lines, names[k]) # <<>>
                THEN <<LastFileValue(lines, names[k])>> ELSE <<>>
    IN IF Len(names) = 1 THEN V(1) ELSE V(1) \o V(2)

\* the file step gives "file" to a vendor that has no variable in the environment
\* and a variable defined in the file
FileStepMarksFile ==
    pc = "LoadFile" =>
       \A i \in DOMAIN VENDORS :
          (/\ NamesOf(i) \cap DOMAIN environ = {}
           /\ \E n \in NamesOf(i) : FileDefines(LocatedLines, n))
            => VENDOR_KEY_SOURCE'[i] = "file"

\* C8 as stated: a vendor absent from the environment and defined with value x
\* in the file gets source "file", and a command with it as main vendor carries
\* a key flag with value x.
C8_FileKeyOnCommand ==
    /\ [][FileStepMarksFile]_vars
    /\ [](pc = "LaunchConfirm" =>
            \A i \in DOMAIN VENDORS :
               (VENDORS[i] = main_vendor /\ VENDOR_KEY_SOURCE[i] = "file")
                 => \A n \in NamesOf(i) :
                       FileDefines(LocatedLines, n)
                         => \E flag \in KeyFlagNames :
                               Carries(current_cmd_list, flag,
                                       Encoded(main_vendor, LastFileValue(LocatedLines, n))))

\* C8 amended: the same for the vendors aider has a key flag for, x being the
\* first non-empty value the file gives the vendor's names (primary name first).
C8_FileKeyOnCommandMapped ==
    /\ [][FileStepMarksFile]_vars
    /\ [](pc = "LaunchConfirm" =>
            \A i \in DOMAIN VENDORS :
               (/\ VENDORS[i] = main_vendor /\ VENDOR_KEY_SOURCE[i] = "file"
                /\ HasKeyFlag(main_vendor))
                 => /\ FileValues(LocatedLines, i) # <<>>
                    /\ Carries(current_cmd_list, KeyFlagOf(main_vendor),
                               Encoded(main_vendor, FileValues(LocatedLines, i)[1])))

\* a command is shown whose main vendor was resolved from the file
C8_Witness ==
    /\ pc = "LaunchConfirm"
    /\ \E i \in DOMAIN VENDORS :
          /\ VENDORS[i] = main_vendor /\ VENDOR_KEY_SOURCE[i] = "file"
          /\ HasKeyFlag(main_vendor)
          /\ Carries(current_cmd_list, KeyFlagOf(main_vendor),
                     Encoded(main_vendor, FileValues(LocatedLines, i)[1]))

\* the value of the first set variable of vendor i
KeyValue(i) ==
    LET names == VENDOR_API_KEY_VARS[i].names
        k == CHOOSE k \in DOMAIN names :
                EnvGet(environ, names[k])
                /\ \A j \in 1..(k - 1) : ~EnvGet(environ, names[j])
    IN environ[names[k]]

\* C9 as stated: source "file" for the main vendor gives exactly one key flag for
\* it, rightly named and encoded; source "env" gives none.
C9_OneKeyFlagIffFile ==
    pc = "LaunchConfirm" =>
       \A i \in DOMAIN VENDORS :
          VENDORS[i] = main_vendor =>
             /\ VENDOR_KEY_SOURCE[i] = "file" =>
                  \E flag \in KeyFlagNames :
                     /\ MainKeyArgs(current_cmd_list)
                          = <<flag, Encoded(main_vendor, KeyValue(i))>>
                     /\ Count(current_cmd_list, flag) = 1
             /\ VENDOR_KEY_SOURCE[i] = "env" =>
                  MainKeyArgs(current_cmd_list) = <<>>

\* C9 amended: that holds for the vendors aider has a key flag for; any other
\* vendor gets no key flag, whatever its source.
C9_OneKeyFlagIffFileMapped ==
    pc = "LaunchConfirm" =>
       \A i \in DOMAIN VENDORS :
          VENDORS[i] = main_vendor =>
             /\ (VENDOR_KEY_SOURCE[i] = "file" /\ HasKeyFlag(main_vendor)) =>
                  /\ MainKeyArgs(current_cmd_list)
                       = <<KeyFlagOf(main_vendor), Encoded(main_vendor, KeyValue(i))>>
                  /\ Count(current_cmd_list, KeyFlagOf(main_vendor)) = 1
             /\ (VENDOR_KEY_SOURCE[i] = "env" /\ HasKeyFlag(main_vendor)) =>
                  /\ MainKeyArgs(current_cmd_list) = <<>>
                  /\ Count(current_cmd_list, KeyFlagOf(main_vendor)) = 0
             /\ ~HasKeyFlag(main_vendor) =>
                  MainKeyArgs(current_cmd_list) = <<>>

\* a command is shown for a file-resolved main vendor that has a key flag
C9_Witness ==
    /\ pc = "LaunchConfirm"
    /\ \E i \in DOMAIN VENDORS :
          /\ VENDORS[i] = main_vendor /\ VENDOR_KEY_SOURCE[i] = "file"
          /\ main_vendor = S("GOOGLE")
          /\ Len(MainKeyArgs(current_cmd_list)) = 2

\* C10: in architect mode with the editor vendor equal to the main vendor, no
\* key flag follows --architect.
C10_NoEditorKeyForSameVendor ==
    (pc = "LaunchConfirm" /\ mode = ARCHITECT /\ editor_vendor = main_vendor) =>
       /\ Head(ModeArgs(current_cmd_list)) = S("--architect")
       /\ \A k \in DOMAIN ModeArgs(current_cmd_list) :
             ModeArgs(current_cmd_list)[k] \notin KeyFlagNames

\* an architect command with the same file-resolved vendor in both roles
C10_Witness ==
    /\ pc = "LaunchConfirm" /\ mode = ARCHITECT /\ editor_vendor = main_vendor
    /\ editor_model \notin {None, DEFAULT}
    /\ HasKeyFlag(main_vendor)
    /\ \E i \in DOMAIN VENDORS : VENDORS[i] = main_vendor /\ VENDOR_KEY_SOURCE[i] = "file"

\* the tokens of cmd before --edit-format
BeforeFormat(cmd) ==
    IF \E k \in DOMAIN cmd : cmd[k] = S("--edit-format")
    THEN SubSeq(cmd, 1, (CHOOSE k \in DOMAIN cmd : cmd[k] = S("--edit-format")) - 1)
    ELSE cmd

\* the tokens between --architect and --edit-format
EditorArgs(cmd) == Tail(BeforeFormat(ModeArgs(cmd)))

\* the tokens that follow `--editor-model <model>` in EditorArgs
EditorKeyArgs(cmd) == SubSeq(EditorArgs(cmd), 3, Len(EditorArgs(cmd)))

ExplicitEditorModel ==
    pc = "LaunchConfirm" /\ mode = ARCHITECT /\ editor_model \notin {None, DEFAULT}

\* C11 as stated: an architect command with an explicit editor model carries
\* --editor-model <model>, followed by the editor vendor's key flag (named and
\* encoded as for a main vendor) exactly when the editor vendor differs from the
\* main vendor and its source is "file".
C11_EditorKeyFlagIffFile ==
    ExplicitEditorModel =>
       /\ SubSeq(EditorArgs(current_cmd_list), 1, 2) = <<S("--editor-model"), editor_model>>
       /\ \A i \in DOMAIN VENDORS :
             VENDORS[i] = editor_vendor =>
                IF editor_vendor # main_vendor /\ VENDOR_KEY_SOURCE[i] = "file"
                THEN \E flag \in KeyFlagNames :
                        EditorKeyArgs(current_cmd_list)
                          = <<flag, Encoded(editor_vendor, KeyValue(i))>>
                ELSE EditorKeyArgs(current_cmd_list) = <<>>

\* C11 amended: the same for the editor vendors aider has a key flag for, the
\* flag being the one of that vendor; any other editor vendor gets no key flag.
C11_EditorKeyFlagIffFileMapped ==
    ExplicitEditorModel =>
       /\ SubSeq(EditorArgs(current_cmd_list), 1, 2) = <<S("--editor-model"), editor_model>>
       /\ \A i \in DOMAIN VENDORS :
             VENDORS[i] = editor_vendor =>
                IF /\ editor_vendor # main_vendor /\ VENDOR_KEY_SOURCE[i] = "file"
                   /\ HasKeyFlag(editor_vendor)
                THEN EditorKeyArgs(current_cmd_list)
                       = <<KeyFlagOf(editor_vendor), Encoded(editor_vendor, KeyValue(i))>>
                ELSE EditorKeyArgs(current_cmd_list) = <<>>

\* an architect command whose editor vendor is GOOGLE, resolved from the file, and
\* whose main vendor is another one
C11_Witness ==
    /\ ExplicitEditorModel
    /\ editor_vendor = GOOGLE /\ main_vendor # GOOGLE
    /\ \E i \in DOMAIN VENDORS : VENDORS[i] = editor_vendor /\ VENDOR_KEY_SOURCE[i] = "file"
    /\ Len(EditorKeyArgs(current_cmd_list)) = 2

----------------------------------------------------------------------------
(* Properties of the menus *)

VendorSteps == {"VendorSelect", "EditorVendorSelect"}

NumOffered == Cardinality({i \in DOMAIN VENDORS : VENDOR_KEY_SOURCE[i] # "unset"})

\* the k-th configured vendor among those whose source is not "unset"
Offered(k) ==
    VENDORS[CHOOSE i \in DOMAIN VENDORS :
               /\ VENDOR_KEY_SOURCE[i] # "unset"
               /\ Cardinality({j \in 1..(i - 1) : VENDOR_KEY_SOURCE[j] # "unset"}) = k - 1]

\* what a vendor menu lists and accepts
VendorsOfferedStep ==
    pc \in VendorSteps =>
       /\ available_vendors = [k \in 1..NumOffered |-> Offered(k)]
       /\ \A k \in 1..Len(VENDORS) :
             (IsDigit(choice') /\ ~IntRaises(choice') /\ IntOf(choice') = k) =>
                SELECT_RESULT' = IF k <= NumOffered THEN Offered(k) ELSE INVALID
       /\ NumOffered = 0 =>
             /\ SELECT_RESULT' = (IF choice' \in BackInputs THEN None ELSE INVALID)
             /\ choice' \notin BackInputs => pc' = pc

\* C12: at a vendor menu, of any role, the vendors listed are the configured
\* vendors whose source is not "unset", in configuration order: the number k
\* picks the k-th of them and a larger number picks nothing; when there is none,
\* only back is accepted and anything else shows the menu again.
C12_VendorsOffered == [][VendorsOfferedStep]_vars

\* the second vendor listed was picked, and it is the third configured one
C12_Witness ==
    /\ asked \in VendorSteps /\ choice = S("2")
    /\ SELECT_RESULT = VENDORS[3]
    /\ NumOffered = 2

\* number of entries the menu at pc lists
OptionsAt ==
    CASE pc \in VendorSteps -> NumOffered
      [] pc = "ModelSelect" -> Len(VENDOR_MODELS(main_vendor))
      [] pc = "EditorModelSelect" -> Len(VENDOR_MODELS(editor_vendor))
      [] pc = "FormatSelect" -> Len(FormatsOf(mode)) + 1
      [] OTHER -> 0

\* a decimal number
IsNumber(c) == c # <<>> /\ \A k \in DOMAIN c : c[k] \in DigitAtoms

\* the line is back, the number of a listed entry, or "9" at the editor vendor menu
Accepted(c) ==
    \/ c \in BackInputs
    \/ pc = "EditorVendorSelect" /\ c = S("9")
    \/ IsNumber(c) /\ IntOf(c) \in 1..OptionsAt

OtherInputReprompts ==
    (pc \in SelectSteps /\ ~Accepted(choice')) => (pc' = pc /\ selection' = selection)

\* C13: at a selection menu, a line that is neither back, nor the number of a
\* listed entry, nor "9" at the editor vendor menu, shows the same menu again
\* and leaves mode, vendors, models and format as they were.
C13_OtherInputReprompts == [][OtherInputReprompts]_vars

----------------------------------------------------------------------------
(* Properties of the launch *)

\* what a step prints when aider is not found or fails
ReportedLaunchErrors == {"Error: Aider command not found",
                         "Error: 'aider' command not found",
                         "Error: aider command failed"}

\* what ends a step in which the launch failed; the traceback is how the
\* presence test ends where `command` is no executable
LaunchErrors == ReportedLaunchErrors \cup {"Traceback: FileNotFoundError: 'command'"}

LaunchErrorRecovered ==
    /\ out' \in LaunchErrors =>
          /\ out' \in ReportedLaunchErrors
          /\ pc' = "ModeSelect" /\ exit_status' = exit_status
          /\ SelectionDiscarded'
    /\ (pc = "ModeSelect" /\ pc' = "VendorSelect") =>
          /\ mode' \in {CODE, ARCHITECT}
          /\ main_vendor' = None /\ main_model' = None
          /\ editor_vendor' = None /\ editor_model' = None /\ selected_format' = None

\* C14: every failed launch (aider absent from the path, or aider exiting with a
\* non-zero status) is reported and leads to ModeSelect, the process still
\* running and the selection of the run dropped; the next run starts from the
\* mode alone.
C14_LaunchErrorRecovered == [][LaunchErrorRecovered]_vars

LaunchConfirmTransition ==
    pc = "LaunchConfirm" =>
       \/ /\ choice' \in {<<>>, S("1")}
          /\ executed' = current_cmd_list /\ executed' # <<>>
          /\ pc' = "ModeSelect"
       \/ /\ choice' = S("2")
          /\ executed' = <<>>
          /\ pc' = "FormatSelect"
          /\ UNCHANGED <<mode, main_vendor, main_model, editor_vendor, editor_model>>
       \/ /\ choice' = S("0")
          /\ executed' = <<>>
          /\ pc' = "ModeSelect"
       \/ /\ choice' \notin {<<>>, S("1"), S("2"), S("0")}
          /\ executed' = <<>>
          /\ pc' = "LaunchConfirm"
          /\ UNCHANGED <<selection, current_cmd_list>>

\* C15: at the launch confirmation, "1" or an empty line runs the command shown
\* and then ModeSelect follows, whatever the outcome; "2" leads to the format
\* menu of the same run with mode, vendors and models kept; "0" leads to
\* ModeSelect without running anything; any other line shows the confirmation
\* again.
C15_LaunchConfirmTransitions == [][LaunchConfirmTransition]_vars

\* back at the format menu from the confirmation, the models still chosen
C15_Witness ==
    /\ pc = "FormatSelect" /\ asked = "LaunchConfirm" /\ choice = S("2")
    /\ mode = ARCHITECT /\ main_model # None /\ editor_model \notin {None, DEFAULT}

\* C16: in architect mode, "9" at the editor vendor menu is followed by the
\* format menu, not by the editor model menu, and a command built for such a
\* selection has nothing between --architect and --edit-format: no
\* --editor-model and no key flag for an editor.
C16_ReuseMainSkipsEditor ==
    /\ (asked = "EditorVendorSelect" /\ choice = S("9")) =>
          /\ pc = "FormatSelect" /\ mode = ARCHITECT
          /\ editor_vendor = DEFAULT
    /\ (pc = "LaunchConfirm" /\ editor_vendor = DEFAULT) =>
          /\ EditorArgs(current_cmd_list) = <<>>
          /\ Count(current_cmd_list, S("--editor-model")) = 0
          /\ \A k \in DOMAIN ModeArgs(current_cmd_list) :
                ModeArgs(current_cmd_list)[k] \notin KeyFlagNames

\* a command for an architect run that reuses the main vendor, itself resolved
\* from the file
C16_Witness ==
    /\ pc = "LaunchConfirm" /\ mode = ARCHITECT /\ editor_vendor = DEFAULT
    /\ Len(MainKeyArgs(current_cmd_list)) = 2
    /\ selected_format # DEFAULT

EditorSteps == {"EditorVendorSelect", "EditorModelSelect"}

\* C17: in code mode neither editor menu is shown, and the command has no
\* --architect, no --editor-model and no key flag after the mode flags.
C17_CodeModeHasNoEditor ==
    mode = CODE =>
       /\ pc \notin EditorSteps /\ asked \notin EditorSteps
       /\ editor_vendor = None /\ editor_model = None
       /\ pc = "LaunchConfirm" =>
             /\ Count(current_cmd_list, S("--architect")) = 0
             /\ Count(current_cmd_list, S("--editor-model")) = 0
             /\ \A k \in DOMAIN ModeArgs(current_cmd_list) :
                   ModeArgs(current_cmd_list)[k] \notin KeyFlagNames

\* a code-mode command for a main vendor resolved from the file: the key flag of
\* the main vendor is there
C17_Witness ==
    /\ pc = "LaunchConfirm" /\ mode = CODE
    /\ Len(MainKeyArgs(current_cmd_list)) = 2
    /\ asked = "FormatSelect"

\* cmd ends with `--edit-format <format>` when a format is chosen, and has no
\* --edit-format when the format is left to aider
FormatFlagOk(cmd, format) ==
    IF format = DEFAULT
    THEN Count(cmd, S("--edit-format")) = 0
    ELSE /\ Len(cmd) >= 2
         /\ cmd[Len(cmd) - 1] = S("--edit-format") /\ cmd[Len(cmd)] = format
         /\ Count(cmd, S("--edit-format")) = 1

EditFormatStep ==
    /\ pc' = "LaunchConfirm" =>
          /\ selected_format' # None
          /\ FormatFlagOk(current_cmd_list', selected_format')
          /\ previous_cmd_list' # <<>> =>
                BeforeFormat(current_cmd_list') = BeforeFormat(previous_cmd_list')
    /\ (pc = "LaunchConfirm" /\ executed' # <<>>) =>
          /\ executed' = current_cmd_list
          /\ FormatFlagOk(executed', selected_format)

\* C18: the command shown at the launch confirmation, which is the command run,
\* has --edit-format exactly when the chosen format is not "default"; the flag
\* comes last, with the chosen format as its value.  After "2" and another
\* format choice the command is the one shown before up to that flag.
C18_EditFormatFlag == [][EditFormatStep]_vars

\* a second command of the same run, with another format than the first
C18_Witness ==
    /\ pc = "LaunchConfirm" /\ selected_format \notin {None, DEFAULT}
    /\ previous_cmd_list # <<>> /\ previous_cmd_list # current_cmd_list

----------------------------------------------------------------------------
(* Shape of the command *)

At(cmd, k) == IF k \in DOMAIN cmd THEN cmd[k] ELSE None

\* where the parts of cmd begin when it is read from the left as
\*   aider --model <model> [<key flag> <value>] <mode flags>
\*         [--editor-model <model> [<key flag> <value>]] [--edit-format <format>]
Parts(cmd) ==
    LET main_key == IF At(cmd, 4) \in KeyFlagNames THEN 2 ELSE 0
        mode_at == 4 + main_key
        mode_len == IF At(cmd, mode_at) = S("--architect") THEN 1
                    ELSE IF At(cmd, mode_at) = S("--chat-mode") THEN 2 ELSE 0
        editor_at == mode_at + mode_len
        editor_len == IF At(cmd, editor_at) = S("--editor-model") THEN 2 ELSE 0
        editor_key_at == editor_at + editor_len
        editor_key == IF editor_len = 2 /\ At(cmd, editor_key_at) \in KeyFlagNames
                      THEN 2 ELSE 0
        format_at == editor_key_at + editor_key
        format_len == IF At(cmd, format_at) = S("--edit-format") THEN 2 ELSE 0
    IN [mode_len |-> mode_len, editor_at |-> editor_at, editor_len |-> editor_len,
        format_at |-> format_at, format_len |-> format_len,
        end |-> format_at + format_len - 1]

\* cmd is made of those parts, in that order, and of nothing else
WellShaped(cmd) ==
    /\ Len(cmd) >= 4
    /\ cmd[1] = S("aider") /\ cmd[2] = S("--model") /\ cmd[3] # None
    /\ Parts(cmd).mode_len # 0
    /\ Parts(cmd).end = Len(cmd)

\* C19: every command built, shown or run, reads as: aider, --model and the main
\* model, the main key flag if any, the mode flags, --editor-model with the editor
\* key flag after it if any, --edit-format if any; nothing else, nothing before
\* aider, and the main model always there.
C19_CommandShape ==
    /\ pc = "LaunchConfirm" =>
          /\ WellShaped(current_cmd_list)
          /\ main_model # None /\ current_cmd_list[3] = main_model
          /\ Parts(current_cmd_list).editor_len = 2 =>
                current_cmd_list[Parts(current_cmd_list).editor_at + 1] = editor_model
          /\ Parts(current_cmd_list).format_len = 2 =>
                current_cmd_list[Parts(current_cmd_list).format_at + 1] = selected_format
    /\ previous_cmd_list # <<>> => WellShaped(previous_cmd_list)
    /\ executed # <<>> => WellShaped(executed)

\* a command with an editor model, an editor key flag and a format
C19_Witness ==
    /\ pc = "LaunchConfirm"
    /\ Parts(current_cmd_list).editor_len = 2
    /\ Parts(current_cmd_list).format_len = 2
    /\ Len(current_cmd_list) = 10

ArchitectFlagsOnly(cmd) ==
    Count(cmd, S("--architect")) = 1 /\ Count(cmd, S("--chat-mode")) = 0

CodeFlagsOnly(cmd) ==
    /\ Count(cmd, S("--chat-mode")) = 1 /\ Carries(cmd, S("--chat-mode"), S("code"))
    /\ Count(cmd, S("--architect")) = 0

\* C20: a command has the mode flags of one mode only: --architect and no
\* --chat-mode in architect mode, `--chat-mode code` and no --architect in code
\* mode.
C20_OneModeFlags ==
    /\ pc = "LaunchConfirm" =>
          /\ mode \in {CODE, ARCHITECT}
          /\ mode = ARCHITECT => ArchitectFlagsOnly(current_cmd_list)
          /\ mode = CODE => CodeFlagsOnly(current_cmd_list)
    /\ executed # <<>> => (ArchitectFlagsOnly(executed) \/ CodeFlagsOnly(executed))

\* a code-mode command has been run
C20_Witness ==
    /\ executed # <<>> /\ CodeFlagsOnly(executed)
    /\ pc = "ModeSelect" /\ asked = "LaunchConfirm"

----------------------------------------------------------------------------
(* Properties of what can be picked *)

Range(list) == {list[k] : k \in DOMAIN list}

\* the formats aider_config.json gives the mode
ModeFormats(m) ==
    CASE m = CODE -> Range(CODE_EDIT_FORMATS)
      [] m = ARCHITECT -> Range(ARCHITECT_EDIT_FORMATS)
      [] OTHER -> {}

\* the value of --edit-format in cmd, "default" when the flag is absent
FormatOf(cmd) ==
    IF \E k \in DOMAIN cmd : cmd[k] = S("--edit-format")
    THEN At(cmd, (CHOOSE k \in DOMAIN cmd : cmd[k] = S("--edit-format")) + 1)
    ELSE DEFAULT

FormatOfModeStep ==
    /\ pc = "FormatSelect" =>
          /\ mode \in {CODE, ARCHITECT}
          /\ SELECT_RESULT' \in {None, INVALID, DEFAULT} \cup ModeFormats(mode)
          /\ \A f \in ModeFormats(mode) :
                \E c \in InputLines : SelectEditFormat(mode, c) = f
    /\ pc' = "LaunchConfirm" =>
          /\ selected_format' \in {DEFAULT} \cup ModeFormats(mode')
          /\ FormatOf(current_cmd_list') = selected_format'
    /\ (pc = "LaunchConfirm" /\ executed' # <<>>) =>
          FormatOf(executed') \in {DEFAULT} \cup ModeFormats(mode)

\* C21: the format menu of a run offers the formats of the mode of the run (and
\* "default") and nothing else, so the format of a command shown or run is one
\* of the formats of that mode, or none.
C21_FormatOfMode == [][FormatOfModeStep]_vars

\* an architect command with the architect format has been run
C21_Witness ==
    /\ pc = "ModeSelect" /\ asked = "LaunchConfirm"
    /\ ArchitectFlagsOnly(executed)
    /\ FormatOf(executed) \in Range(ARCHITECT_EDIT_FORMATS)

\* the vendor is configured, its source is not "unset" and one of its variables
\* has a value
VendorUsable(vendor) ==
    /\ vendor \in Range(VENDORS)
    /\ \A i \in DOMAIN VENDORS : VENDORS[i] = vendor => VENDOR_KEY_SOURCE[i] # "unset"
    /\ ~KeyUnavailable(vendor)

\* C22: a model menu is shown only for a vendor picked in the same run whose
\* source is not "unset" and whose key is there, and the model picked for a role
\* is one of the models of the vendor picked for that role.
C22_ModelOfCheckedVendor ==
    /\ pc = "ModelSelect" => VendorUsable(main_vendor)
    /\ pc = "EditorModelSelect" => VendorUsable(editor_vendor)
    /\ main_model # None =>
          VendorUsable(main_vendor) /\ main_model \in Range(VENDOR_MODELS(main_vendor))
    /\ editor_model \notin {None, DEFAULT} =>
          /\ VendorUsable(editor_vendor)
          /\ editor_model \in Range(VENDOR_MODELS(editor_vendor))

\* an editor model has been picked, of another vendor than the main one
C22_Witness ==
    /\ pc = "FormatSelect" /\ asked = "EditorModelSelect"
    /\ editor_vendor # main_vendor
    /\ editor_model \in Range(VENDOR_MODELS(editor_vendor))
    /\ NumOffered < Len(VENDORS)

----------------------------------------------------------------------------
(* Vendors aider has no key flag for *)

FileSourced(vendor) ==
    \E i \in DOMAIN VENDORS : VENDORS[i] = vendor /\ VENDOR_KEY_SOURCE[i] = "file"

\* C23: for a main or editor vendor aider has no key flag for, resolved from the
\* file, the command is built all the same, without a key flag for that vendor,
\* and is otherwise as for any vendor: aider --model <model>, the mode flags,
\* --editor-model <model> for an editor, the format.
C23_NoFlagForUnmappedVendor ==
    pc = "LaunchConfirm" =>
       /\ (~HasKeyFlag(main_vendor) /\ FileSourced(main_vendor)) =>
             /\ MainKeyArgs(current_cmd_list) = <<>>
             /\ SubSeq(current_cmd_list, 1, 3) = <<S("aider"), S("--model"), main_model>>
             /\ WellShaped(current_cmd_list)
             /\ FormatFlagOk(current_cmd_list, selected_format)
       /\ (/\ mode = ARCHITECT /\ editor_model \notin {None, DEFAULT}
           /\ ~HasKeyFlag(editor_vendor) /\ FileSourced(editor_vendor)) =>
             /\ EditorArgs(current_cmd_list) = <<S("--editor-model"), editor_model>>
             /\ WellShaped(current_cmd_list)
             /\ FormatFlagOk(current_cmd_list, selected_format)

\* a command whose main vendor is MISTRAL, resolved from the file
C23_Witness ==
    /\ pc = "LaunchConfirm"
    /\ main_vendor = MISTRAL /\ FileSourced(MISTRAL)
    /\ Len(current_cmd_list) >= 5

----------------------------------------------------------------------------
(* The resolved keys during the session *)

LoadSteps == {"LoadEnv", "LoadFile"}

\* C24: once load_api_keys has returned, no step of the session (menu, check,
\* command build, confirmation, launch) changes the source of a vendor or a
\* variable of the environment.
C24_ResolvedKeysKept ==
    [][pc \notin LoadSteps =>
          (VENDOR_KEY_SOURCE' = VENDOR_KEY_SOURCE /\ environ' = environ)]_vars

\* aider has been run with a key of the file passed on its command
C24_Witness ==
    /\ asked = "LaunchConfirm" /\ executed # <<>>
    /\ \E k \in DOMAIN executed : executed[k] \in KeyFlagNames
    /\ \E i \in DOMAIN VENDORS : VENDOR_KEY_SOURCE[i] = "file" /\ ~KeyUnavailable(VENDORS[i])

----------------------------------------------------------------------------
(* Invocations of aider *)

Invoked == executed # <<>>

NoAutomaticRetry ==
    /\ Invoked' =>
          /\ ~Invoked
          /\ pc = "LaunchConfirm"
          /\ pc' = "ModeSelect" /\ SelectionDiscarded'
          /\ current_cmd_list' = <<>> /\ previous_cmd_list' = <<>>
    /\ pc' = "LaunchConfirm" =>
          /\ ~Invoked'
          /\ mode' # None /\ main_vendor' # None /\ main_model' # None
          /\ selected_format' # None
    /\ (main_vendor' # main_vendor /\ main_vendor' # None) => asked' = "VendorSelect"
    /\ (main_model' # main_model /\ main_model' # None) => asked' = "ModelSelect"
    /\ (selected_format' # selected_format /\ selected_format' # None) =>
          asked' = "FormatSelect"

\* C25: aider is run once per launch choice and never again by itself: the step
\* that runs it leads to ModeSelect with nothing selected, no step that follows
\* a run is itself a run, and a confirmation is shown only with a vendor, a
\* model and a format that the vendor, model and format menus alone set.
C25_NoAutomaticRetry == [][NoAutomaticRetry]_vars

\* aider has failed and ModeSelect is shown, nothing selected
C25_Witness ==
    /\ Invoked /\ out = "Error: aider command failed"
    /\ pc = "ModeSelect" /\ SelectionDiscarded

----------------------------------------------------------------------------
(* Lines of the keys file that name no key variable *)

CredentialNames == UNION {NamesOf(i) : i \in DOMAIN VENDORS}

\* the names the lines assign to
AssignedNames(lines) ==
    {n \in {MatchLine(Strip(lines[k])).var_name : k \in DOMAIN lines} :
        FileDefines(lines, n)}

\* the line is no assignment to a name that is not a key variable
NotForeign(raw) ==
    \A n \in AssignedNames(<<raw>>) : n \in CredentialNames

ForeignLinesIgnored ==
    pc = "LoadFile" =>
       /\ \A n \in AssignedNames(LocatedLines) \ CredentialNames :
             /\ (n \in DOMAIN environ') = (n \in DOMAIN environ)
             /\ n \in DOMAIN environ => environ'[n] = environ[n]
       /\ AssignedNames(LocatedLines) \cap CredentialNames = {} =>
             (environ' = environ /\ VENDOR_KEY_SOURCE' = VENDOR_KEY_SOURCE)
       /\ [env |-> environ', source |-> VENDOR_KEY_SOURCE']
            = LoadKeysFromFile(1, SelectSeq(LocatedLines, NotForeign),
                               VENDOR_API_KEY_VARS, environ, VENDOR_KEY_SOURCE)

\* C26: a NAME=value line of the keys file whose NAME is no key variable of a
\* configured vendor leaves the environment and every source as they are: the
\* name is not exported, and the file resolves as it does without the line.
C26_ForeignLinesIgnored == [][ForeignLinesIgnored]_vars

\* the file read assigns to EDITOR and to a key variable, and only the latter
\* is in the environment
C26_Witness ==
    /\ pc = "ModeSelect"
    /\ OTHER_VAR \in AssignedNames(LocatedLines)
    /\ OTHER_VAR \notin DOMAIN environ
    /\ \E i \in DOMAIN VENDORS : VENDOR_KEY_SOURCE[i] = "file"

----------------------------------------------------------------------------
(* Numeric picks at the vendor and model menus *)

EntitySteps == {"VendorSelect", "ModelSelect", "EditorVendorSelect", "EditorModelSelect"}

\* the entities the menu of the current step lists, in order
ListedAt ==
    CASE pc \in VendorSteps -> [k \in 1..NumOffered |-> Offered(k)]
      [] pc = "ModelSelect" -> VENDOR_MODELS(main_vendor)
      [] pc = "EditorModelSelect" -> VENDOR_MODELS(editor_vendor)
      [] OTHER -> <<>>

NumericPickSelects ==
    (pc \in EntitySteps /\ IsNumber(choice') /\ IntOf(choice') \in 1..Len(ListedAt))
        => SELECT_RESULT' = ListedAt[IntOf(choice')]

\* C27: at every vendor or model menu listing N entities, the editor vendor
\* menu included, the number k with 1 <= k <= N selects the k-th listed
\* entity; with nine vendors listed, "9" selects the ninth.
C27_NumericPickSelects == [][NumericPickSelects]_vars

----------------------------------------------------------------------------
(* Resolved vendors and their values *)

\* some key variable of vendor i holds a non-empty value
HasValue(i) == \E n \in NamesOf(i) : n \in DOMAIN environ /\ environ[n] # <<>>

\* C28: once the keys are loaded, every vendor whose source is "env" or "file"
\* has a key variable with a non-empty value in the environment, whatever the
\* file gave it, so that every vendor a menu offers passes check_api_key.
C28_SourcedVendorsHaveValue ==
    pc \notin LoadSteps =>
       \A i \in DOMAIN VENDORS :
          VENDOR_KEY_SOURCE[i] \in {"env", "file"} =>
             (HasValue(i) /\ CheckApiKey(VENDORS[i]))

----------------------------------------------------------------------------
(* What holds of every command that is run *)

\* the word after the flag in the command, None without the flag
ValueAfter(cmd, flag) ==
    IF \E k \in 1..(Len(cmd) - 1) : cmd[k] = flag
    THEN cmd[(CHOOSE k \in 1..(Len(cmd) - 1) : cmd[k] = flag) + 1]
    ELSE None

\* the vendor is configured, resolved, and has a non-empty key in the environment
Resolved(vendor) ==
    \E i \in DOMAIN VENDORS :
       /\ VENDORS[i] = vendor
       /\ VENDOR_KEY_SOURCE[i] \in {"env", "file"}
       /\ HasValue(i)

InvokedWithUsableVendors ==
    executed' # <<>> =>
       /\ ValueAfter(executed', S("--model")) = main_model
       /\ Resolved(main_vendor)
       /\ main_model \in Range(VENDOR_MODELS(main_vendor))
       /\ (mode = ARCHITECT /\ editor_model # DEFAULT) =>
             /\ ValueAfter(executed', S("--editor-model")) = editor_model
             /\ Resolved(editor_vendor)
             /\ editor_model \in Range(VENDOR_MODELS(editor_vendor))
       /\ ValueAfter(executed', S("--editor-model")) # None =>
             (mode = ARCHITECT /\ editor_model # DEFAULT)

\* C29: whenever aider is run, the main vendor of the command has a source
\* other than "unset" and a non-empty key in the environment and the main model
\* is one of its models; in architect mode with an editor model of its own, the
\* same holds of the editor vendor and the editor model.
C29_InvokedWithUsableVendors == [][InvokedWithUsableVendors]_vars

\* aider has been run in architect mode with an editor model of another vendor,
\* while some configured vendor has no usable key
C29_Witness ==
    /\ executed # <<>>
    /\ ValueAfter(executed, S("--editor-model")) \notin
          {None, ValueAfter(executed, S("--model"))}
    /\ \E i \in DOMAIN VENDORS : ~HasValue(i)

----------------------------------------------------------------------------
(* Where aider is run from *)

MenuSteps == {"ModeSelect", "VendorSelect", "ModelSelect", "EditorVendorSelect",
              "EditorModelSelect", "FormatSelect"}

InvokedOnlyOnConfirm ==
    /\ executed' # <<>> =>
          /\ pc = "LaunchConfirm" /\ asked' = "LaunchConfirm"
          /\ choice' \in {<<>>, S("1")}
          /\ executed' = current_cmd_list
          /\ mode \in {CODE, ARCHITECT}
          /\ main_vendor \in Range(VENDORS)
          /\ main_model \notin {None, DEFAULT}
          /\ selected_format # None
    /\ (pc \in MenuSteps \/ pc \in LoadSteps) => executed' = <<>>
    /\ (pc = "LaunchConfirm" /\ choice' \notin {<<>>, S("1")}) => executed' = <<>>

\* C30: aider is run only from LaunchConfirm, and there only on "1" or an empty
\* line; no line at ModeSelect or at a vendor, model or format menu runs it,
\* and it is never run before a mode, a main vendor, a main model and a format
\* (possibly the default one) have been chosen in the current run.
C30_InvokedOnlyOnConfirm == [][InvokedOnlyOnConfirm]_vars

\* aider has been run on an empty line at the confirmation, with the default format
C30_Witness ==
    /\ executed # <<>> /\ asked = "LaunchConfirm" /\ choice = <<>>
    /\ ValueAfter(executed, S("--edit-format")) = None
    /\ pc = "ModeSelect"

----------------------------------------------------------------------------
(* The order of the menus within one run *)

Rank(step) ==
    CASE step = "VendorSelect" -> 1
      [] step = "ModelSelect" -> 2
      [] step = "EditorVendorSelect" -> 3
      [] step = "EditorModelSelect" -> 4
      [] step = "FormatSelect" -> 5
      [] step = "LaunchConfirm" -> 6

RunSteps == SelectSteps \cup {"LaunchConfirm"}

StepOrderKept ==
    /\ (pc \in RunSteps /\ pc' \in RunSteps) =>
          \/ Rank(pc') >= Rank(pc)
          \/ pc = "LaunchConfirm" /\ pc' = "FormatSelect"
    /\ (pc \in SelectSteps /\ choice' \in BackInputs) => pc' = "ModeSelect"
    /\ (pc = "ModeSelect" /\ pc' \in RunSteps) => pc' = "VendorSelect"

\* C31: between two ModeSelect prompts the menus follow the order vendor, model,
\* editor vendor, editor model, format, confirmation, and the only step back is
\* from the confirmation to the format menu; a back input at any of the five
\* menus leads directly to ModeSelect.
C31_StepOrderKept == [][StepOrderKept]_vars

\* the confirmation has led back to the format menu, in an architect run
\* that reuses the main model
C31_Witness ==
    /\ pc = "FormatSelect" /\ asked = "LaunchConfirm"
    /\ mode = ARCHITECT /\ editor_model = DEFAULT
    /\ choice = S("2")

----------------------------------------------------------------------------
(* The primary name of the vendor with two key variables *)

\* C32: once the keys are loaded, whenever the source of the vendor with two
\* key variables is "env" or "file", GEMINI_API_KEY is set in the environment,
\* also when the key came only from a file line for GOOGLE_API_KEY.
C32_PrimaryNameSet ==
    pc \notin LoadSteps =>
       \A i \in DOMAIN VENDORS :
          (VENDOR_API_KEY_VARS[i].list /\ VENDOR_KEY_SOURCE[i] \in {"env", "file"})
             => GEMINI_API_KEY \in DOMAIN environ

====
